---- MODULE Spec2Model ----
(***************************************************************************)
(* Items-Backend: a FastAPI service over one SQLAlchemy table, "items".    *)
(* The storage layer (crud.py) is modelled as operators on the table; the  *)
(* request layer (main.py) as one process per worker thread that opens a   *)
(* session (get_db), runs the route handler one storage statement at a     *)
(* time, closes the session and sends the response.                        *)
(*                                                                         *)
(* An optional value (Optional[T], or a key that may be missing from a     *)
(* payload) is a set with at most one element: {} is None.                 *)
(* A string is a tuple of one-character strings.                           *)
(***************************************************************************)
EXTENDS Integers, Sequences, FiniteSets, TLC

\* ------------------------------------------------------------ bounds
\* Primary keys the table can hold: 1..MaxId.
MaxId == 2
\* Requests served in one run (each opens one session).
MaxSessions == 4
\* Worker threads serving requests concurrently.
NWorkers == 2

Ids == 1..MaxId
Workers == 1..NWorkers
\* The sequential server: one request in flight at a time.
SeqWorkers == {1}
\* The ids the concurrent requests are about.
RaceIds == {1}

None == {}
Some(x) == {x}

\* ------------------------------------------------------------ strings
\* str.lower() / SQL lower(), on the letters the model uses.
LowerChar(c) ==
    IF c = "A" THEN "a" ELSE IF c = "B" THEN "b"
    ELSE IF c = "X" THEN "x" ELSE IF c = "Y" THEN "y" ELSE c

Lower(s) == [k \in 1..Len(s) |-> LowerChar(s[k])]

\* SQL LIKE: % matches any run of characters, _ matches exactly one.
RECURSIVE Like(_, _)
Like(s, p) ==
    IF p = <<>> THEN s = <<>>
    ELSE IF Head(p) = "%"
         THEN Like(s, Tail(p)) \/ (s # <<>> /\ Like(Tail(s), p))
         ELSE /\ s # <<>>
              /\ (Head(p) = "_" \/ Head(p) = Head(s))
              /\ Like(Tail(s), Tail(p))

\* Column.ilike(pattern): lower(column) LIKE lower(pattern).
ilike(s, p) == Like(Lower(s), Lower(p))

\* f"%{text}%"
Wrap(text) == <<"%">> \o text \o <<"%">>

\* ------------------------------------------------------------ values
\* Item bodies requests carry (schemas.Item without its id).
Bodies ==
    { [name |-> <<"A", "b">>, description |-> <<"x">>, price |-> 0, quantity |-> 0],
      [name |-> <<"a", "_">>, description |-> <<"X", "y">>, price |-> 1, quantity |-> 1],
      [name |-> <<"b">>, description |-> <<"y">>, price |-> 2, quantity |-> 0] }


\* schemas.Item as item.dict() hands it to the storage layer: the four
\* fields, and an id that the payload may or may not carry.
WithId(b, oid) ==
    [id |-> oid, name |-> b.name, description |-> b.description,
     price |-> b.price, quantity |-> b.quantity]

Payloads == { WithId(b, oid) : b \in Bodies, oid \in {None} \cup {Some(i) : i \in Ids} }
\* The item the concurrent requests are about.
RacePayload == WithId([name |-> <<"b">>, description |-> <<"y">>, price |-> 2, quantity |-> 0], None)

NoItem == WithId([name |-> <<>>, description |-> <<>>, price |-> 0, quantity |-> 0], None)

\* Query parameters of GET /items/search/.
NameArgs == {None, Some(<<>>), Some(<<"B">>), Some(<<"_">>)}
DescArgs == {None, Some(<<"Y">>)}
MinPriceArgs == {None, Some(1)}
MaxPriceArgs == {None, Some(0), Some(1)}
QuantityArgs == {None, Some(0)}

Criteria ==
    [name : NameArgs, description : DescArgs, min_price : MinPriceArgs,
     max_price : MaxPriceArgs, quantity : QuantityArgs]

NoCriteria ==
    [name |-> None, description |-> None, min_price |-> None,
     max_price |-> None, quantity |-> None]

HTTP_OK == 200
HTTP_NOT_FOUND == 404
HTTP_SERVER_ERROR == 500

VARIABLES
    store,      \* the items table: primary key -> row
    nsess,      \* sessions SessionLocal() has made
    sessions,   \* session -> [state]: open or closed
    pc,         \* worker -> where it is in its request
    req,        \* worker -> the request it serves
    sess,       \* worker -> the session get_db yielded to it (0: none)
    resp,       \* worker -> the response of its handler
    pre,        \* the table as it was when the latest request started
    raced,      \* worker -> another request removed its row after its check
    origin,     \* primary key -> the id the row was created with
    created,    \* rows create returned, not updated or deleted since
    deleted     \* ids a delete removed, not assigned by a create since

vars == <<store, nsess, sessions, pc, req, sess, resp, pre, raced, origin,
          created, deleted>>

\* ------------------------------------------------------------ storage layer
Row(i, st) ==
    [id |-> i, name |-> st[i].name, description |-> st[i].description,
     price |-> st[i].price, quantity |-> st[i].quantity]

Without(st, i) == [k \in DOMAIN st \ {i} |-> st[k]]

With(st, i, row) == [k \in DOMAIN st \cup {i} |-> IF k = i THEN row ELSE st[k]]

\* Items with the description column left out of the constructor call.
ItemsWithoutDescription(item) ==
    [name |-> item.name, description |-> <<>>,
     price |-> item.price, quantity |-> item.quantity]

\* models.Items(**item.dict()): the columns of the new row.
Items(item) ==
    [name |-> item.name, description |-> item.description,
     price |-> item.price, quantity |-> item.quantity]

\* The primary keys the INSERT may end with: the payload's id when it has
\* one, else any key the engine generates (a key no row holds).
InsertIds(st, item) == IF item.id = None THEN Ids \ DOMAIN st ELSE item.id

\* crud.create: add, commit, refresh. The table after inserting under key i.
create(st, item, i) == With(st, i, Items(item))

\* crud.retrieve: the row with that primary key, or None.
retrieve(item_id, st) == IF item_id \in DOMAIN st THEN Some(Row(item_id, st)) ELSE None

\* crud.retrieve_all
retrieve_all(st) == { Row(i, st) : i \in DOMAIN st }

\* The key the row has after UPDATE ... SET <item.dict()> WHERE id = item_id.
UpdatedId(item_id, item) == IF item.id = None THEN item_id ELSE CHOOSE i \in item.id : TRUE

\* The UPDATE of crud.update violates the primary key: the row would move
\* onto a key another row holds.
UpdateConflicts(st, item_id, item) ==
    /\ item_id \in DOMAIN st
    /\ UpdatedId(item_id, item) # item_id
    /\ UpdatedId(item_id, item) \in DOMAIN st

\* query.filter(id == item_id).update(item.dict()); commit. Every key of the
\* dict is written; no row matching is no error.
update(st, item_id, item) ==
    IF item_id \in DOMAIN st
    THEN With(Without(st, item_id), UpdatedId(item_id, item), Items(item))
    ELSE st

\* db.delete(item); commit: DELETE FROM items WHERE id = item_id. A row
\* already gone is a warning, not an error.
delete(st, item_id) == Without(st, item_id)

\* The filters of crud.search, one per criterion.
NameFilter(row, name) ==
    (name # None /\ name # Some(<<>>)) => \A n \in name : ilike(row.name, Wrap(n))

DescriptionFilter(row, description) ==
    (description # None /\ description # Some(<<>>))
        => \A d \in description : ilike(row.description, Wrap(d))

MinPriceFilter(row, min_price) == \A m \in min_price : row.price >= m

\* "if max_price:" in place of "if max_price is not None:".
MaxPriceFilterTruthy(row, max_price) ==
    (max_price # None /\ max_price # Some(0)) => \A m \in max_price : row.price <= m

MaxPriceFilter(row, max_price) == \A m \in max_price : row.price <= m

QuantityFilter(row, quantity) == \A q \in quantity : row.quantity = q

\* crud.search
search(st, c) ==
    { row \in retrieve_all(st) :
        /\ NameFilter(row, c.name)
        /\ DescriptionFilter(row, c.description)
        /\ MinPriceFilter(row, c.min_price)
        /\ MaxPriceFilter(row, c.max_price)
        /\ QuantityFilter(row, c.quantity) }

\* ------------------------------------------------------------ request layer
NoReq == [kind |-> "none", item_id |-> 0, item |-> NoItem, criteria |-> NoCriteria]
NoResp == [status |-> 0, rows |-> {}, id |-> 0]
EmptyTable == [k \in {} |-> NoItem]

Init ==
    /\ store = EmptyTable
    /\ origin = [k \in {} |-> 0]
    /\ nsess = 0
    /\ sessions = <<>>
    /\ pc = [r \in Workers |-> "idle"]
    /\ req = [r \in Workers |-> NoReq]
    /\ sess = [r \in Workers |-> 0]
    /\ resp = [r \in Workers |-> NoResp]
    /\ pre = EmptyTable
    /\ raced = [r \in Workers |-> FALSE]
    /\ created = {}
    /\ deleted = {}

\* get_db up to its yield: db = database.SessionLocal().
SessionLocal(r) ==
    /\ nsess' = nsess + 1
    /\ sessions' = Append(sessions, [state |-> "open"])
    /\ sess' = [sess EXCEPT ![r] = nsess + 1]

\* A request arrives at an idle worker; its dependency get_db runs first.
Accept(r, request, first) ==
    /\ nsess < MaxSessions
    /\ SessionLocal(r)
    /\ req' = [req EXCEPT ![r] = request]
    /\ pre' = store
    /\ pc' = [pc EXCEPT ![r] = first]
    /\ UNCHANGED <<store, origin, resp, raced, created, deleted>>

\* The handler returns (or raises): the response is set and get_db resumes.
Reply(r, status, rows, id) ==
    /\ resp' = [resp EXCEPT ![r] = [status |-> status, rows |-> rows, id |-> id]]
    /\ pc' = [pc EXCEPT ![r] = "finally"]

NotFound(r) == Reply(r, HTTP_NOT_FOUND, {}, req[r].item_id)

\* ---- POST /items/
\* What the caller of create holds: the payload it sent and the id it got.
Returned(item, i) ==
    [id |-> i, name |-> item.name, description |-> item.description,
     price |-> item.price, quantity |-> item.quantity]

post_items(r, item) ==
    /\ pc[r] = "idle"
    /\ InsertIds(store, item) # {}
    /\ Accept(r, [NoReq EXCEPT !.kind = "create", !.item = item], "create")

create_step(r) ==
    /\ pc[r] = "create"
    /\ IF InsertIds(store, req[r].item) \subseteq DOMAIN store /\ req[r].item.id # None
       THEN \* IntegrityError: the key is taken
            /\ Reply(r, HTTP_SERVER_ERROR, {}, 0)
            /\ UNCHANGED <<store, origin, created, deleted>>
       ELSE \E i \in InsertIds(store, req[r].item) \ DOMAIN store :
            /\ store' = create(store, req[r].item, i)
            /\ origin' = With(origin, i, i)
            /\ Reply(r, HTTP_OK, retrieve(i, store'), i)
            /\ created' = {row \in created : row.id # i} \cup {Returned(req[r].item, i)}
            /\ deleted' = deleted \ {i}
    /\ UNCHANGED <<nsess, sessions, req, sess, pre, raced>>

\* ---- GET /items
get_items(r) ==
    /\ pc[r] = "idle"
    /\ Accept(r, [NoReq EXCEPT !.kind = "retrieve_all"], "retrieve_all")

retrieve_all_step(r) ==
    /\ pc[r] = "retrieve_all"
    /\ Reply(r, HTTP_OK, retrieve_all(store), 0)
    /\ UNCHANGED <<store, origin, nsess, sessions, req, sess, pre, raced, created, deleted>>

\* ---- GET /items/{item_id}
get_item(r, item_id) ==
    /\ pc[r] = "idle"
    /\ Accept(r, [NoReq EXCEPT !.kind = "retrieve", !.item_id = item_id], "retrieve")

retrieve_step(r) ==
    /\ pc[r] = "retrieve"
    /\ IF retrieve(req[r].item_id, store) = None
       THEN NotFound(r)
       ELSE Reply(r, HTTP_OK, retrieve(req[r].item_id, store), req[r].item_id)
    /\ UNCHANGED <<store, origin, nsess, sessions, req, sess, pre, raced, created, deleted>>

\* ---- PUT /items/{item_id}
put_item(r, item_id, item) ==
    /\ pc[r] = "idle"
    /\ Accept(r, [NoReq EXCEPT !.kind = "update", !.item_id = item_id, !.item = item], "update_retrieve")

\* An update that inserts the row when the id is missing.
update_or_insert_step(r) ==
    /\ pc[r] = "update_retrieve"
    /\ IF retrieve(req[r].item_id, store) = None
       THEN /\ store' = With(store, req[r].item_id, Items(req[r].item))
            /\ origin' = With(origin, req[r].item_id, req[r].item_id)
            /\ Reply(r, HTTP_OK, retrieve(req[r].item_id, store'), req[r].item_id)
       ELSE /\ pc' = [pc EXCEPT ![r] = "update_commit"]
            /\ UNCHANGED <<resp, store, origin>>
    /\ UNCHANGED <<nsess, sessions, req, sess, pre, raced, created, deleted>>

\* existing_item = retrieve(item_id, db); if not existing_item: return None
update_retrieve_step(r) ==
    /\ pc[r] = "update_retrieve"
    /\ IF retrieve(req[r].item_id, store) = None
       THEN NotFound(r)
       ELSE /\ pc' = [pc EXCEPT ![r] = "update_commit"]
            /\ UNCHANGED resp
    /\ UNCHANGED <<store, origin, nsess, sessions, req, sess, pre, raced, created, deleted>>

\* The row's ghost origin moves with the row.
MovedOrigin(item_id, item) ==
    IF item_id \in DOMAIN origin
    THEN With(Without(origin, item_id), UpdatedId(item_id, item), origin[item_id])
    ELSE origin

\* db.query(...).filter(...).update(item.dict()); db.commit()
update_commit_step(r) ==
    /\ pc[r] = "update_commit"
    /\ IF UpdateConflicts(store, req[r].item_id, req[r].item)
       THEN \* IntegrityError
            /\ Reply(r, HTTP_SERVER_ERROR, {}, 0)
            /\ UNCHANGED <<store, origin, created>>
       ELSE /\ store' = update(store, req[r].item_id, req[r].item)
            /\ origin' = MovedOrigin(req[r].item_id, req[r].item)
            /\ created' = {row \in created : row.id # req[r].item_id}
            /\ pc' = [pc EXCEPT ![r] = "update_refetch"]
            /\ UNCHANGED resp
    /\ UNCHANGED <<nsess, sessions, req, sess, pre, raced, deleted>>

\* return retrieve(item_id, db), and the handler's 404 when that is None
update_refetch_step(r) ==
    /\ pc[r] = "update_refetch"
    /\ IF retrieve(req[r].item_id, store) = None
       THEN NotFound(r)
       ELSE Reply(r, HTTP_OK, retrieve(req[r].item_id, store), req[r].item_id)
    /\ UNCHANGED <<store, origin, nsess, sessions, req, sess, pre, raced, created, deleted>>

\* ---- DELETE /items/{item_id}
delete_item(r, item_id) ==
    /\ pc[r] = "idle"
    /\ Accept(r, [NoReq EXCEPT !.kind = "delete", !.item_id = item_id], "delete_retrieve")

\* item = retrieve(item_id, db); if not item: return False
delete_retrieve_step(r) ==
    /\ pc[r] = "delete_retrieve"
    /\ IF retrieve(req[r].item_id, store) = None
       THEN NotFound(r)
       ELSE /\ pc' = [pc EXCEPT ![r] = "delete_commit"]
            /\ UNCHANGED resp
    /\ UNCHANGED <<store, origin, nsess, sessions, req, sess, pre, raced, created, deleted>>

\* The requests whose existence check saw the row this step removes and
\* whose own removal is still to come.
Overtaken(r) ==
    { q \in Workers \ {r} :
        /\ pc[q] = "delete_commit"
        /\ req[q].item_id = req[r].item_id
        /\ req[r].item_id \in DOMAIN store }

\* db.delete(item); db.commit(); return True
delete_commit_step(r) ==
    /\ pc[r] = "delete_commit"
    /\ store' = delete(store, req[r].item_id)
    /\ origin' = Without(origin, req[r].item_id)
    /\ raced' = [q \in Workers |-> raced[q] \/ q \in Overtaken(r)]
    /\ created' = {row \in created : row.id # req[r].item_id}
    /\ deleted' = deleted \cup {req[r].item_id}
    /\ Reply(r, HTTP_OK, {}, req[r].item_id)
    /\ UNCHANGED <<nsess, sessions, req, sess, pre>>

\* ---- GET /items/search/
get_items_search(r, c) ==
    /\ pc[r] = "idle"
    /\ Accept(r, [NoReq EXCEPT !.kind = "search", !.criteria = c], "search")

search_step(r) ==
    /\ pc[r] = "search"
    /\ Reply(r, HTTP_OK, search(store, req[r].criteria), 0)
    /\ UNCHANGED <<store, origin, nsess, sessions, req, sess, pre, raced, created, deleted>>

\* ---- get_db after its yield: finally: db.close(). The response leaves and
\* the worker is free for the next request.
\* A get_db without its finally: the session is left as it is.
LeftOpen(ss, s) == ss

Closed(ss, s) == [ss EXCEPT ![s].state = "closed"]

get_db_finally(r) ==
    /\ pc[r] = "finally"
    /\ sessions' = Closed(sessions, sess[r])
    /\ pc' = [pc EXCEPT ![r] = "idle"]
    /\ req' = [req EXCEPT ![r] = NoReq]
    /\ resp' = [resp EXCEPT ![r] = NoResp]
    /\ sess' = [sess EXCEPT ![r] = 0]
    /\ raced' = [raced EXCEPT ![r] = FALSE]
    /\ UNCHANGED <<store, origin, nsess, pre, created, deleted>>

\* ------------------------------------------------------------ specifications
Handler(r) ==
    \/ create_step(r)
    \/ retrieve_all_step(r)
    \/ retrieve_step(r)
    \/ update_retrieve_step(r)
    \/ update_commit_step(r)
    \/ update_refetch_step(r)
    \/ delete_retrieve_step(r)
    \/ delete_commit_step(r)
    \/ search_step(r)
    \/ get_db_finally(r)

\* One request at a time, over every payload and every search criterion.
Next ==
    \E r \in SeqWorkers :
        \/ \E item \in Payloads : post_items(r, item)
        \/ get_items(r)
        \/ \E i \in Ids : get_item(r, i)
        \/ \E i \in Ids, item \in Payloads : put_item(r, i, item)
        \/ \E i \in Ids : delete_item(r, i)
        \/ \E c \in Criteria : get_items_search(r, c)
        \/ Handler(r)

Spec == Init /\ [][Next]_vars

\* Several workers, their storage statements interleaved: lookups and deletes
\* of the ids in RaceIds.
ConcNext ==
    \E r \in Workers :
        \/ \E i \in RaceIds : get_item(r, i)
        \/ \E i \in RaceIds : delete_item(r, i)
        \/ retrieve_step(r)
        \/ delete_retrieve_step(r)
        \/ delete_commit_step(r)
        \/ get_db_finally(r)

\* The table holds one item, created under id 1 by an earlier POST /items/.
ConcInit ==
    /\ store = create(EmptyTable, RacePayload, 1)
    /\ origin = [k \in {1} |-> 1]
    /\ nsess = 0
    /\ sessions = <<>>
    /\ pc = [r \in Workers |-> "idle"]
    /\ req = [r \in Workers |-> NoReq]
    /\ sess = [r \in Workers |-> 0]
    /\ resp = [r \in Workers |-> NoResp]
    /\ pre = EmptyTable
    /\ raced = [r \in Workers |-> FALSE]
    /\ created = {Returned(RacePayload, 1)}
    /\ deleted = {}

ConcSpec == ConcInit /\ [][ConcNext]_vars

\* A handler that has started runs to its end: nothing in it blocks.
FairConcSpec == ConcSpec /\ \A r \in Workers : WF_vars(Handler(r))

\* ------------------------------------------------------------ properties
Finished(r, kind) == pc[r] = "finally" /\ req[r].kind = kind

\* C1: a row create returned, with no update or delete of its id since, is
\* what retrieve of that id yields: the payload's name, description, price
\* and quantity under the id create returned; GET /items/{id} answers with it.
CreateThenRetrieve ==
    /\ \A row \in created : retrieve(row.id, store) = Some(row)
    /\ \A r \in Workers :
         (Finished(r, "retrieve") /\ \E row \in created : row.id = req[r].item_id)
             => /\ resp[r].status = HTTP_OK
                /\ resp[r].rows = {row \in created : row.id = req[r].item_id}

CreateThenRetrieveWitness ==
    \E r \in Workers :
        /\ Finished(r, "retrieve")
        /\ resp[r].status = HTTP_OK
        /\ resp[r].rows # {}
        /\ resp[r].rows \subseteq created

\* C2: an update of an id no row has answers 404 and leaves the table as it
\* was when the request started.
UpdateMissingUnchanged ==
    \A r \in Workers :
        (Finished(r, "update") /\ req[r].item_id \notin DOMAIN pre)
            => /\ resp[r].status = HTTP_NOT_FOUND
               /\ resp[r].rows = {}
               /\ store = pre

UpdateMissingWitness ==
    \E r \in Workers :
        /\ Finished(r, "update")
        /\ req[r].item_id \notin DOMAIN pre
        /\ pre # EmptyTable
        /\ resp[r].status = HTTP_NOT_FOUND

\* C3: once a delete has removed an id, and until a create is assigned that
\* id, no row has it: retrieve answers absent, and a further delete answers
\* not-found and changes nothing.
DeletedStaysGone ==
    /\ \A i \in deleted : retrieve(i, store) = None
    /\ \A r \in Workers :
         (Finished(r, "retrieve") /\ req[r].item_id \in deleted)
             => resp[r].status = HTTP_NOT_FOUND
    /\ \A r \in Workers :
         (Finished(r, "delete") /\ req[r].item_id \in deleted
                                /\ req[r].item_id \notin DOMAIN pre)
             => resp[r].status = HTTP_NOT_FOUND /\ store = pre

\* C4: an update of an existing id that returns leaves the row of that id
\* holding exactly the supplied name, description, price and quantity,
\* returns that row, and leaves every other row as it was.
UpdateFullReplace ==
    \A r \in Workers :
        (Finished(r, "update") /\ req[r].item_id \in DOMAIN pre
                               /\ resp[r].status # HTTP_SERVER_ERROR)
            => /\ resp[r].status = HTTP_OK
               /\ req[r].item_id \in DOMAIN store
               /\ store[req[r].item_id] = Items(req[r].item)
               /\ resp[r].rows = retrieve(req[r].item_id, store)
               /\ DOMAIN store = DOMAIN pre
               /\ \A j \in DOMAIN pre \ {req[r].item_id} : store[j] = pre[j]

\* C5: every stored row carries the id it was created with, whatever ids
\* the payloads of later updates carried.
IdNeverChanges == \A i \in DOMAIN store : origin[i] = i

\* What a criterion asks of a row when it is supplied; a name or description
\* is matched as the storage engine matches it (C7 is about that match).
Satisfies(row, c) ==
    /\ \A n \in c.name : ilike(row.name, Wrap(n))
    /\ \A d \in c.description : ilike(row.description, Wrap(d))
    /\ \A m \in c.min_price : ~(row.price < m)
    /\ \A m \in c.max_price : ~(row.price > m)
    /\ \A q \in c.quantity : row.quantity = q

\* C6: search answers exactly the rows that satisfy every supplied criterion
\* (inclusive price bounds, equal quantity, a supplied 0 still a constraint,
\* an unsupplied criterion none), and every row when none is supplied.
SearchConjunction ==
    \A r \in Workers :
        Finished(r, "search")
            => /\ resp[r].status = HTTP_OK
               /\ resp[r].rows = {row \in retrieve_all(store) : Satisfies(row, req[r].criteria)}
               /\ (req[r].criteria = NoCriteria => resp[r].rows = retrieve_all(store))

SearchConjunctionWitness ==
    \E r \in Workers :
        /\ Finished(r, "search")
        /\ req[r].criteria.max_price = Some(0)
        /\ req[r].criteria.quantity = Some(0)
        /\ req[r].criteria.name # None
        /\ resp[r].rows # {}
        /\ resp[r].rows # retrieve_all(store)

\* t occurs in s as a contiguous run of characters.
Contains(s, t) == \E k \in 0..(Len(s) - Len(t)) : SubSeq(s, k + 1, k + Len(t)) = t

\* C7: a supplied name (description) matches a row exactly when it occurs,
\* letter case ignored, as a substring of the row's name (description).
SubstringMatch ==
    \A r \in Workers :
        Finished(r, "search")
            => \A row \in retrieve_all(store) :
                 /\ \A n \in req[r].criteria.name :
                      (row \in search(store, [NoCriteria EXCEPT !.name = Some(n)]))
                          <=> Contains(Lower(row.name), Lower(n))
                 /\ \A d \in req[r].criteria.description :
                      (row \in search(store, [NoCriteria EXCEPT !.description = Some(d)]))
                          <=> Contains(Lower(row.description), Lower(d))

\* C8: GET, PUT and DELETE of /items/{id} answer 404, naming the id, exactly
\* when no row had that id when the request ran; the other routes never
\* answer 404.
NotFoundIffMissing ==
    \A r \in Workers :
        pc[r] = "finally"
            => IF req[r].kind \in {"retrieve", "update", "delete"}
               THEN /\ (resp[r].status = HTTP_NOT_FOUND) <=> (req[r].item_id \notin DOMAIN pre)
                    /\ resp[r].status = HTTP_NOT_FOUND => resp[r].id = req[r].item_id
               ELSE resp[r].status # HTTP_NOT_FOUND

\* A worker inside a request holds a session of its own, and it is open.
SessionInUseIsOpen ==
    \A r \in Workers :
        pc[r] # "idle"
            => /\ sess[r] \in 1..nsess
               /\ sessions[sess[r]].state = "open"
               /\ \A q \in Workers \ {r} : sess[q] # sess[r]

\* A session no request holds has been closed.
SessionReleasedIsClosed ==
    \A s \in 1..nsess :
        (\A r \in Workers : sess[r] # s) => sessions[s].state = "closed"

\* C9: every request runs on a session of its own that is open while the
\* handler uses it, is closed when the request ends, whether with a result
\* or with the 404, and every session opened is eventually closed.
SessionPerRequest ==
    /\ [](SessionInUseIsOpen /\ SessionReleasedIsClosed)
    /\ \A s \in 1..MaxSessions :
         (nsess >= s) ~> (nsess >= s /\ sessions[s].state = "closed")

SessionPerRequestWitness ==
    /\ nsess >= 2
    /\ sessions[1].state = "closed"
    /\ \E r \in Workers :
         /\ pc[r] = "finally"
         /\ resp[r].status = HTTP_NOT_FOUND
         /\ sessions[sess[r]].state = "open"

\* C10: of the concurrent deletes of one existing row, at most one reports
\* success: a delete whose existence check saw the row, and whose removal
\* came after another delete had removed it, reports not-found.
AtMostOneDeleteSucceeds ==
    \A r \in Workers :
        (Finished(r, "delete") /\ raced[r]) => resp[r].status = HTTP_NOT_FOUND

====
